---- MODULE Spec2Model ----
(***************************************************************************)
(* SENTINEL.AI motion detector (src/App.tsx): the frame comparison, the    *)
(* convex hull of the changed pixels, the alert/cooldown state machine,    *)
(* the bounded motion log and the asynchronous description completions.    *)
(* Times are Date.now() readings in milliseconds.                          *)
(***************************************************************************)
EXTENDS Integers, Sequences, FiniteSets

\* ------------------------------------------------------------------------
\* Program constants
\* ------------------------------------------------------------------------
MAX_LOGS == 20
FrameWidth == 64
FrameHeight == 48
MsPerSecond == 1000
IntervalMs == 100
DefaultSensitivity == 20
DefaultThreshold == 150
DefaultCooldown == 5
MinSensitivity == 5
MaxSensitivity == 100
MinThreshold == 10
HaveEnoughData == 4

DEFAULT_CONFIG ==
  [sensitivity |-> DefaultSensitivity, threshold |-> DefaultThreshold,
   enableAudio |-> TRUE, enableAI |-> TRUE, cooldown |-> DefaultCooldown]

\* DetectionStatus values the program assigns (DETECTING is never assigned).
IDLE == "IDLE"
ALERT == "ALERT"

\* ------------------------------------------------------------------------
\* Geometry: cross product and monotone-chain convex hull
\* ------------------------------------------------------------------------
cross(o, a, b) == (a.x - o.x) * (b.y - o.y) - (a.y - o.y) * (b.x - o.x)

ComparePoints_XOnly(a, b) == a.x - b.x

\* The comparator handed to points.sort: negative when a goes before b.
ComparePoints(a, b) == IF a.x = b.x THEN a.y - b.y ELSE a.x - b.x

\* points.sort(...): a stable sort under ComparePoints. The point at index i
\* ends after every point that compares lower and after every earlier point
\* that compares equal.
RankOf(points, i) ==
  1 + Cardinality({j \in 1..Len(points) :
        \/ ComparePoints(points[j], points[i]) < 0
        \/ ComparePoints(points[j], points[i]) = 0 /\ j < i})

SortPoints(points) ==
  LET n == Len(points)
      rank == SubSeq([i \in 1..n |-> RankOf(points, i)], 1, n)
  IN SubSeq([r \in 1..n |-> points[CHOOSE i \in 1..n : rank[i] = r]], 1, n)

RECURSIVE PopWhile_KeepStraight(_, _)
PopWhile_KeepStraight(stack, p) ==
  IF Len(stack) >= 2 /\ cross(stack[Len(stack) - 1], stack[Len(stack)], p) < 0
  THEN PopWhile_KeepStraight(SubSeq(stack, 1, Len(stack) - 1), p)
  ELSE stack

\* The while loop of both chains: pop while the last two points of the stack
\* and p do not make a strictly counter-clockwise turn.
RECURSIVE PopWhile(_, _)
PopWhile(stack, p) ==
  IF Len(stack) >= 2 /\ cross(stack[Len(stack) - 1], stack[Len(stack)], p) <= 0
  THEN PopWhile(SubSeq(stack, 1, Len(stack) - 1), p)
  ELSE stack

\* One chain. The for loop visits the sorted points first to last for the
\* lower chain and last to first (reverse) for the upper chain; steps lo..hi
\* of that loop are applied to stack in order.
RECURSIVE BuildChain(_, _, _, _, _)
BuildChain(points, reverse, lo, hi, stack) ==
  IF lo > hi THEN stack
  ELSE IF lo = hi THEN
    LET p == points[IF reverse THEN Len(points) + 1 - lo ELSE lo]
    IN Append(PopWhile(stack, p), p)
  ELSE LET mid == (lo + hi) \div 2
           done == BuildChain(points, reverse, lo, mid, stack)
       IN \* every step ends with a push, so done is never empty
          CASE Len(done) >= 1 -> BuildChain(points, reverse, mid + 1, hi, done)

DropLast_Keep(s) == s

\* lower.pop() and upper.pop() before the concatenation.
DropLast(s) == SubSeq(s, 1, Len(s) - 1)

\* The caller's array after getConvexHull(points) returns: points.sort sorts
\* it in place unless the function returned before.
PointsAfterHull(points) ==
  IF Len(points) <= 2 THEN points ELSE SortPoints(points)

getConvexHull(points) ==
  LET n == Len(points)
  IN IF n <= 2 THEN points
     ELSE LET sorted == SortPoints(points)
              lower == BuildChain(sorted, FALSE, 1, n, <<>>)
              upper == BuildChain(sorted, TRUE, 1, n, <<>>)
          IN DropLast(lower) \o DropLast(upper)

\* ------------------------------------------------------------------------
\* Frames: RGBA byte arrays of FrameWidth * FrameHeight pixels (getImageData)
\* ------------------------------------------------------------------------
DataLength == 4 * FrameWidth * FrameHeight

\* The scenes the camera shows in this model, by identifier. NoFrame is the
\* null of prevFrameData.
NoFrame == "null"
Dark == "dark"
Blob == "blob"
Glow == "glow"
FrameIds == {Dark, Blob, Glow}
\* A scene for the comparison alone: see FrameByte.
Veil == "veil"

\* Number of pixels (in row-major order) the two lit scenes light up: as
\* many as the default threshold, one more, and a dimmer halo after those.
BlobPixels == DefaultThreshold
GlowPixels == DefaultThreshold + 1
HaloPixels == 50

\* Byte i (0-based) of the frame: channel i % 4 of pixel i \div 4.
\* Dark is black and opaque. Blob lights its first BlobPixels pixels to full
\* red. Glow raises every colour channel of its first GlowPixels pixels by 7
\* (sum 21) and the red channel of the next HaloPixels pixels by 20. Veil is
\* black, transparent in its first row, and has the blue channel of its last
\* pixel at 21.
FrameByte(f, i) ==
  LET p == i \div 4
      c == i % 4
  IN IF c = 3 THEN (IF f = Veil /\ p < FrameWidth THEN 0 ELSE 255)
     ELSE IF f = Veil
     THEN (IF p = FrameWidth * FrameHeight - 1 /\ c = 2 THEN 21 ELSE 0)
     ELSE IF f = Blob THEN (IF p < BlobPixels /\ c = 0 THEN 255 ELSE 0)
     ELSE IF f = Glow THEN
       (IF p < GlowPixels THEN 7
        ELSE IF p < GlowPixels + HaloPixels /\ c = 0 THEN 20 ELSE 0)
     ELSE 0

Abs(v) == IF v < 0 THEN 0 - v ELSE v

ChangedAt_AtLeast(prev, data, sensitivity, i) ==
  LET rDiff == Abs(FrameByte(data, i) - FrameByte(prev, i))
      gDiff == Abs(FrameByte(data, i + 1) - FrameByte(prev, i + 1))
      bDiff == Abs(FrameByte(data, i + 2) - FrameByte(prev, i + 2))
      pIdx == i \div 4
  IN IF rDiff + gDiff + bDiff >= sensitivity
     THEN <<[x |-> pIdx % FrameWidth, y |-> pIdx \div FrameWidth]>>
     ELSE <<>>

\* The loop body for byte offset i: the pixel's point if it changed.
ChangedAt(prev, data, sensitivity, i) ==
  LET rDiff == Abs(FrameByte(data, i) - FrameByte(prev, i))
      gDiff == Abs(FrameByte(data, i + 1) - FrameByte(prev, i + 1))
      bDiff == Abs(FrameByte(data, i + 2) - FrameByte(prev, i + 2))
      pIdx == i \div 4
  IN IF rDiff + gDiff + bDiff > sensitivity
     THEN <<[x |-> pIdx % FrameWidth, y |-> pIdx \div FrameWidth]>>
     ELSE <<>>

\* for (i = 0; i < data.length; i += 4): pixels lo..hi in increasing order.
RECURSIVE ScanPixels(_, _, _, _, _)
ScanPixels(prev, data, sensitivity, lo, hi) ==
  IF lo > hi THEN <<>>
  ELSE IF lo = hi THEN ChangedAt(prev, data, sensitivity, 4 * lo)
  ELSE LET mid == (lo + hi) \div 2
       IN ScanPixels(prev, data, sensitivity, lo, mid)
          \o ScanPixels(prev, data, sensitivity, mid + 1, hi)

activePixels(prev, data, sensitivity) ==
  ScanPixels(prev, data, sensitivity, 0, (DataLength \div 4) - 1)

\* ------------------------------------------------------------------------
\* Bounds of the model
\* ------------------------------------------------------------------------
\* Latest clock reading of the short-run specification Spec.
MaxClock == 10001
\* Latest clock reading of the long-run specification SpecLog.
LogHorizon == 135000
\* Most description requests in flight at once under SpecLog.
MaxPending == 2
\* Latest clock reading of the start-up specification SpecBoot.
BootHorizon == 500
\* Most points in an array handed to getConvexHull under SpecHull.
MaxPoints == 5
\* Milliseconds toDataURL may take between the two Date.now() readings.
MaxSnapshotMs == 1

\* Date.now() when the page loads.
StartTimes == {0, DefaultCooldown * MsPerSecond}
\* Time between two runs of the interval callback that get a mention: the
\* runs in between are skipped ones, or the timer is late.
TickGaps == {IntervalMs * 25}
\* Values the two sliders are moved to.
SensitivityInputs == {DefaultSensitivity, MaxSensitivity}
ThresholdInputs == {MinThreshold, DefaultThreshold}

\* The frames and the sensitivities of SpecDiff: the slider's lowest and
\* highest value, the default, its neighbours, and two more.
DiffFrames == FrameIds \cup {Veil}
DiffSensitivities ==
  {MinSensitivity, MinSensitivity + 1, DefaultSensitivity - 1, DefaultSensitivity,
   DefaultSensitivity + 1, 3 * DefaultSensitivity, MaxSensitivity}

\* The points the arrays of SpecHull are made of: the corners of a square,
\* its centre and the middles of two of its sides.
HullPoints ==
  {[x |-> 0, y |-> 0], [x |-> 2, y |-> 0], [x |-> 2, y |-> 2], [x |-> 0, y |-> 2],
   [x |-> 1, y |-> 1], [x |-> 1, y |-> 0], [x |-> 0, y |-> 1]}
\* The arrays: every order, with duplicates, of up to MaxPoints points.
HullInputs == UNION {[1..n -> HullPoints] : n \in 0..MaxPoints}

\* What analyzeSecuritySnapshot resolves to: the service's text or the text
\* of its catch block. It never rejects.
Descriptions ==
  {"A person walks by.", "Analysis failed due to network or API error."}

\* The analysis field of an entry that has none (undefined).
Undefined == "undefined"
\* What toDataURL returns for the captured frame.
SnapshotUrl == "data:image/jpeg;base64"

\* Every comparison the interval callback can make, computed once.
Comparisons ==
  { [prev |-> c[1], data |-> c[2], sensitivity |-> c[3],
     pixels |-> activePixels(c[1], c[2], c[3])] :
    c \in FrameIds \X FrameIds \X SensitivityInputs }

Compared(prev, data, sensitivity) ==
  (CHOOSE c \in Comparisons :
     c.prev = prev /\ c.data = data /\ c.sensitivity = sensitivity).pixels

\* The hulls of the comparisons that can exceed a threshold, computed once.
Hulls ==
  { [pixels |-> c.pixels, hull |-> getConvexHull(c.pixels)] :
    c \in {d \in Comparisons : Len(d.pixels) > MinThreshold} }

HullOf(pixels) == (CHOOSE h \in Hulls : h.pixels = pixels).hull

VARIABLES
  config,         \* React state: the AppConfig
  closure,        \* the AppConfig captured by the running interval callback
  status,         \* React state: DetectionStatus
  logs,           \* React state: MotionLog[], newest first
  hasPermission,  \* React state: "null", "true" or "false"
  lastAlertTime,  \* ref: Date.now() of the last qualifying trigger, 0 at start
  prevFrameData,  \* ref: the previous frame, NoFrame at start
  pending,        \* ids of the description requests in flight
  clock,          \* the latest Date.now() reading
  last            \* the operation that ran last, its inputs and side effects

vars == <<config, closure, status, logs, hasPermission, lastAlertTime,
          prevFrameData, pending, clock, last>>

\* ------------------------------------------------------------------------
\* Initial state: the first render, before getUserMedia settles
\* ------------------------------------------------------------------------
Init ==
  /\ config = DEFAULT_CONFIG
  /\ closure = DEFAULT_CONFIG
  /\ status = IDLE
  /\ logs = <<>>
  /\ hasPermission = "null"
  /\ lastAlertTime = 0
  /\ prevFrameData = NoFrame
  /\ pending = {}
  /\ clock \in StartTimes
  /\ last = [op |-> "render"]

\* ------------------------------------------------------------------------
\* The motion detection effect and the configuration controls
\* ------------------------------------------------------------------------
\* The dependency array of the motion detection effect.
LoopDeps(permission, cfg) ==
  <<permission, cfg.sensitivity, cfg.threshold, cfg.cooldown>>

\* The config the interval callback sees after a render: the effect runs
\* again, and captures the render's config, only when a dependency changed
\* and permission is held; otherwise the old callback keeps running.
LoopClosure(oldPermission, oldConfig, newPermission, newConfig, oldClosure) ==
  IF /\ LoopDeps(oldPermission, oldConfig) # LoopDeps(newPermission, newConfig)
     /\ newPermission = "true"
  THEN newConfig
  ELSE oldClosure

\* startCamera: getUserMedia resolves.
StartCameraOk ==
  /\ hasPermission = "null"
  /\ hasPermission' = "true"
  /\ closure' = LoopClosure(hasPermission, config, "true", config, closure)
  /\ last' = [op |-> "startCamera"]
  /\ UNCHANGED <<config, status, logs, lastAlertTime, prevFrameData,
                 pending, clock>>

\* startCamera: getUserMedia rejects.
StartCameraFail ==
  /\ hasPermission = "null"
  /\ hasPermission' = "false"
  /\ closure' = LoopClosure(hasPermission, config, "false", config, closure)
  /\ last' = [op |-> "startCamera"]
  /\ UNCHANGED <<config, status, logs, lastAlertTime, prevFrameData,
                 pending, clock>>

\* setConfig followed by the render and effects it causes.
SetConfig(name, newConfig) ==
  /\ newConfig # config
  /\ config' = newConfig
  /\ closure' = LoopClosure(hasPermission, config, hasPermission, newConfig, closure)
  /\ last' = [op |-> name]
  /\ UNCHANGED <<status, logs, hasPermission, lastAlertTime,
                 prevFrameData, pending, clock>>

SetSensitivity(v) == SetConfig("setSensitivity", [config EXCEPT !.sensitivity = v])

SetThreshold(v) == SetConfig("setThreshold", [config EXCEPT !.threshold = v])

ToggleAudio == SetConfig("toggleAudio", [config EXCEPT !.enableAudio = ~@])

ToggleAI == SetConfig("toggleAI", [config EXCEPT !.enableAI = ~@])

\* ------------------------------------------------------------------------
\* handleMotionDetected
\* ------------------------------------------------------------------------
InCooldown_FromZero(now, lastAlert, cooldown) == now < cooldown * MsPerSecond

InCooldown_Seconds(now, lastAlert, cooldown) == now - lastAlert < cooldown

InCooldown_Inclusive(now, lastAlert, cooldown) ==
  now - lastAlert <= cooldown * MsPerSecond

\* now - lastAlertTime.current < config.cooldown * 1000
InCooldown(now, lastAlert, cooldown) == now - lastAlert < cooldown * MsPerSecond

\* playAlertSound: whether the oscillator is started.
playAlertSound(cfg) == cfg.enableAudio

InsertLog_NoSlice(newLog, prev) == <<newLog>> \o prev

\* [newLog, ...prev].slice(0, MAX_LOGS)
InsertLog(newLog, prev) ==
  LET all == <<newLog>> \o prev
  IN SubSeq(all, 1, IF Len(all) < MAX_LOGS THEN Len(all) ELSE MAX_LOGS)

PatchLog_All(prev, newLogId, description) ==
  [i \in 1..Len(prev) |->
     [prev[i] EXCEPT !.analysis = description, !.isAnalyzing = FALSE]]

PatchLog_Upsert(prev, newLogId, description) ==
  IF \E i \in 1..Len(prev) : prev[i].id = newLogId
  THEN [i \in 1..Len(prev) |->
          IF prev[i].id = newLogId
          THEN [prev[i] EXCEPT !.analysis = description, !.isAnalyzing = FALSE]
          ELSE prev[i]]
  ELSE <<[id |-> newLogId, timestamp |-> newLogId, imageUrl |-> "",
          isAnalyzing |-> FALSE, analysis |-> description]>> \o prev

\* prev.map(log => log.id === newLogId ? {...log, analysis, isAnalyzing: false} : log)
PatchLog(prev, newLogId, description) ==
  [i \in 1..Len(prev) |->
     IF prev[i].id = newLogId
     THEN [prev[i] EXCEPT !.analysis = description, !.isAnalyzing = FALSE]
     ELSE prev[i]]

ShouldAnalyze_NoSnapshot(cfg, snapshotUrl) == cfg.enableAI /\ snapshotUrl = ""

\* if (config.enableAI && snapshotUrl)
ShouldAnalyze(cfg, snapshotUrl) == cfg.enableAI /\ snapshotUrl # ""

NewLogId_LogLength(now, snapshotMs) == Len(logs)

\* const newLogId = Date.now().toString(): the clock reading taken snapshotMs
\* after the reading now.
NewLogId(now, snapshotMs) == now + snapshotMs

\* The synchronous part of handleMotionDetected, run inside the interval
\* callback with the callback's config cfg. now is the first Date.now()
\* reading and snapshotMs the time until the second one. The snapshot is
\* taken when videoRef.current is there, which the callback has checked in
\* the same run. The id is the second reading; its decimal string names the
\* same entries as the number does.
handleMotionDetected(cfg, now, snapshotMs, tick) ==
  IF InCooldown(now, lastAlertTime, cfg.cooldown)
  THEN /\ status' = ALERT
       /\ clock' = now
       /\ last' = [tick EXCEPT !.audio = FALSE, !.request = FALSE]
       /\ UNCHANGED <<lastAlertTime, logs, pending>>
  ELSE LET snapshotUrl == IF tick.capture.refs THEN SnapshotUrl ELSE ""
           newLogId == NewLogId(now, snapshotMs)
           newLog == [id |-> newLogId, timestamp |-> newLogId,
                      imageUrl |-> snapshotUrl, isAnalyzing |-> cfg.enableAI,
                      analysis |-> Undefined]
           request == ShouldAnalyze(cfg, snapshotUrl)
       IN /\ lastAlertTime' = now
          /\ status' = ALERT
          /\ logs' = InsertLog(newLog, logs)
          /\ pending' = IF request THEN pending \cup {newLogId} ELSE pending
          /\ clock' = newLogId
          /\ last' = [tick EXCEPT !.audio = playAlertSound(cfg), !.request = request]

\* The rest of handleMotionDetected: analyzeSecuritySnapshot resolves with
\* description and the entry with the request's id is patched.
CompleteAnalysis(newLogId, description) ==
  /\ newLogId \in pending
  /\ pending' = pending \ {newLogId}
  /\ logs' = PatchLog(logs, newLogId, description)
  /\ last' = [op |-> "completeAnalysis", id |-> newLogId]
  /\ UNCHANGED <<config, closure, status, hasPermission, lastAlertTime,
                 prevFrameData, clock>>

\* ------------------------------------------------------------------------
\* detectMotion: one run of the interval callback
\* ------------------------------------------------------------------------
MotionPresent_AtLeast(count, threshold) == count >= threshold

MotionPresent_Any(count, threshold) == count > 0

\* activePixels.length > config.threshold
MotionPresent(count, threshold) == count > threshold

\* What the callback finds when it runs: the video, canvas and overlay refs,
\* the two 2D contexts, and video.readyState.
Captures ==
  {[refs |-> TRUE, contexts |-> TRUE, readyState |-> HaveEnoughData],
   [refs |-> FALSE, contexts |-> TRUE, readyState |-> HaveEnoughData],
   [refs |-> TRUE, contexts |-> FALSE, readyState |-> HaveEnoughData],
   [refs |-> TRUE, contexts |-> TRUE, readyState |-> 0]}

\* The two early returns of detectMotion, negated.
CaptureReady(capture) ==
  capture.refs /\ capture.contexts /\ capture.readyState = HaveEnoughData

SkipTick_Idle(tick) ==
  /\ status' = IDLE
  /\ clock' = tick.now
  /\ last' = tick
  /\ UNCHANGED <<logs, lastAlertTime, prevFrameData, pending>>

\* An early return: nothing is drawn, compared or stored.
SkipTick(tick) ==
  /\ clock' = tick.now
  /\ last' = tick
  /\ UNCHANGED <<status, logs, lastAlertTime, prevFrameData, pending>>

\* prevFrameData.current is null: the comparison block is not entered.
FirstFrame(tick) ==
  /\ clock' = tick.now
  /\ last' = tick
  /\ UNCHANGED <<status, logs, lastAlertTime, pending>>

\* The else branch of the threshold check.
NoMotion(tick) ==
  /\ status' = IDLE
  /\ clock' = tick.now
  /\ last' = tick
  /\ UNCHANGED <<lastAlertTime, logs, pending>>

StoreFrame_FirstOnly(data) ==
  prevFrameData' = IF prevFrameData = NoFrame THEN data ELSE prevFrameData

\* prevFrameData.current = new Uint8ClampedArray(data)
StoreFrame(data) == prevFrameData' = data

\* gap: time since the latest clock reading; capture: what the callback
\* finds; data: the frame drawn; snapshotMs: see handleMotionDetected.
\* The record tick tells what the run saw and did: the frame it drew (none
\* when it returned early), whether it compared, the length of activePixels,
\* the hull it drew, the sound and the request.
detectMotion(gap, capture, data, snapshotMs) ==
  LET skipped == [op |-> "detectMotion", now |-> clock + gap,
                  capture |-> capture, frame |-> NoFrame, compared |-> FALSE,
                  count |-> 0, hull |-> <<>>, audio |-> FALSE, request |-> FALSE]
      tick == [skipped EXCEPT !.frame = data]
  IN /\ hasPermission = "true"
     /\ UNCHANGED <<config, closure, hasPermission>>
     /\ IF ~CaptureReady(capture)
        THEN SkipTick(skipped)
        ELSE /\ StoreFrame(data)
             /\ IF prevFrameData = NoFrame
                THEN FirstFrame(tick)
                ELSE LET pixels == Compared(prevFrameData, data, closure.sensitivity)
                         seen == [tick EXCEPT !.compared = TRUE, !.count = Len(pixels)]
                     IN IF MotionPresent(Len(pixels), closure.threshold)
                        THEN handleMotionDetected(closure, tick.now, snapshotMs,
                                                  [seen EXCEPT !.hull = HullOf(pixels)])
                        ELSE NoMotion(seen)

\* ------------------------------------------------------------------------
\* Specifications
\* ------------------------------------------------------------------------
Tick_AwaitsRequests ==
  \E gap \in TickGaps, capture \in Captures, data \in FrameIds,
     snapshotMs \in 0..MaxSnapshotMs :
    /\ pending = {}
    /\ clock + gap + snapshotMs <= MaxClock
    /\ detectMotion(gap, capture, data, snapshotMs)

\* Spec: a short run with every input free. The timer fires the callback
\* whatever requests are in flight: handleMotionDetected is called without
\* await and what follows its own await runs as CompleteAnalysis.
Tick ==
  \E gap \in TickGaps, capture \in Captures, data \in FrameIds,
     snapshotMs \in 0..MaxSnapshotMs :
    /\ clock + gap + snapshotMs <= MaxClock
    /\ detectMotion(gap, capture, data, snapshotMs)

Complete == \E id \in pending, d \in Descriptions : CompleteAnalysis(id, d)

Next ==
  \/ StartCameraOk
  \/ StartCameraFail
  \/ \E v \in SensitivityInputs : SetSensitivity(v)
  \/ \E v \in ThresholdInputs : SetThreshold(v)
  \/ ToggleAudio
  \/ ToggleAI
  \/ Tick
  \/ Complete

Spec == Init /\ [][Next]_vars

\* SpecLog: a long run that fills the log and goes on. The configuration is
\* left as it is, every callback run is one cooldown after the last and shows
\* a scene other than the previous one, and at most MaxPending requests are
\* in flight.
LogTick ==
  \E data \in {Dark, Glow} :
    /\ data # prevFrameData
    /\ clock + DefaultCooldown * MsPerSecond <= LogHorizon
    /\ Cardinality(pending) < MaxPending
    /\ detectMotion(DefaultCooldown * MsPerSecond,
                    [refs |-> TRUE, contexts |-> TRUE, readyState |-> HaveEnoughData],
                    data, 0)

LogComplete == \E id \in pending : CompleteAnalysis(id, "A person walks by.")

NextLog ==
  \/ StartCameraOk
  \/ LogTick
  \/ LogComplete

SpecLog == Init /\ [][NextLog]_vars

\* The initial state of the specifications that call one function on its
\* own: the first render, with the clock at the first of its start times.
InitAlone == Init /\ clock = 0

\* SpecBoot: the first runs of the interval callback, one every IntervalMs,
\* on a machine whose clock reads BootHorizon at the latest. No cooldown has
\* passed since the 0 that lastAlertTime starts with.
BootTick ==
  \E capture \in Captures, data \in FrameIds, snapshotMs \in 0..MaxSnapshotMs :
    /\ clock + IntervalMs + snapshotMs <= BootHorizon
    /\ detectMotion(IntervalMs, capture, data, snapshotMs)

NextBoot ==
  \/ StartCameraOk
  \/ BootTick

SpecBoot == Init /\ [][NextBoot]_vars

\* SpecHull: getConvexHull on its own. An array of HullInputs is handed to
\* it, and then the array it returned is handed to it again. The record
\* tells the array before the call, the same array after it, and the result.
CallHull(points, call) ==
  /\ last' = [op |-> "getConvexHull", call |-> call, input |-> points,
              points |-> PointsAfterHull(points), hull |-> getConvexHull(points)]
  /\ UNCHANGED <<config, closure, status, logs, hasPermission, lastAlertTime,
                 prevFrameData, pending, clock>>

HullFirst ==
  /\ last.op = "render"
  /\ \E points \in HullInputs : CallHull(points, 1)

HullAgain ==
  /\ last.op = "getConvexHull" /\ last.call = 1
  /\ CallHull(last.hull, 2)

NextHull ==
  \/ HullFirst
  \/ HullAgain

SpecHull == InitAlone /\ [][NextHull]_vars

\* SpecDiff: the comparison loop of detectMotion on its own, for a stored
\* frame, a drawn frame and a sensitivity.
CompareFrames(prev, data, sensitivity) ==
  /\ last.op = "render"
  /\ last' = [op |-> "compare", prev |-> prev, data |-> data,
              sensitivity |-> sensitivity,
              pixels |-> activePixels(prev, data, sensitivity)]
  /\ UNCHANGED <<config, closure, status, logs, hasPermission, lastAlertTime,
                 prevFrameData, pending, clock>>

NextDiff ==
  \E prev \in DiffFrames, data \in DiffFrames, sensitivity \in DiffSensitivities :
    CompareFrames(prev, data, sensitivity)

SpecDiff == InitAlone /\ [][NextDiff]_vars

\* FairSpec: a short run where every request in flight is answered in the end:
\* analyzeSecuritySnapshot settles and the event loop runs what awaits it.
\* The ids a request can carry: no trigger comes before one cooldown after
\* the initial 0, and the clock is a multiple of the tick gap plus the
\* snapshot times of the triggers so far.
RequestIds ==
  {t \in (DefaultCooldown * MsPerSecond)..MaxClock :
     t % (IntervalMs * 25) <= 2 * MaxSnapshotMs}

\* The sliders, the audio button and a refused camera are left out: they
\* have no part in what becomes of a request.
NextFair ==
  \/ StartCameraOk
  \/ ToggleAI
  \/ Tick
  \/ Complete

FairSpec ==
  /\ Init
  /\ [][NextFair]_vars
  /\ \A id \in RequestIds :
       WF_vars(\E d \in Descriptions : CompleteAnalysis(id, d))

\* ------------------------------------------------------------------------
\* Properties
\* ------------------------------------------------------------------------
CooldownMs == config.cooldown * MsPerSecond

LogIds == {logs[i].id : i \in 1..Len(logs)}

\* The step is a run of the interval callback that compared two frames.
ComparedStep == last'.op = "detectMotion" /\ last'.compared

Unavailable(capture) ==
  ~capture.refs \/ ~capture.contexts \/ capture.readyState # HaveEnoughData

\* C1: a run that finds motion less than the cooldown after the last alert
\* sets status to ALERT, leaves the log, the last-alert time and the requests
\* in flight as they are, plays no sound and asks for no description.
C1_SuppressedRetrigger ==
  [][(/\ ComparedStep
      /\ last'.count > config.threshold
      /\ last'.now - lastAlertTime < CooldownMs)
     => /\ status' = ALERT
        /\ logs' = logs
        /\ lastAlertTime' = lastAlertTime
        /\ pending' = pending
        /\ ~last'.audio
        /\ ~last'.request]_vars

C1_Witness ==
  /\ last.op = "detectMotion" /\ last.compared
  /\ last.count > config.threshold
  /\ Len(logs) >= 1
  /\ last.now > lastAlertTime
  /\ last.now - lastAlertTime < CooldownMs
  /\ status = ALERT

\* C2: a run that finds motion at least the cooldown after the last alert
\* (exactly the cooldown included) sets status to ALERT, sets the last-alert
\* time to now and puts exactly one new entry at the head of the log.
C2_QualifyingTrigger ==
  [][(/\ ComparedStep
      /\ last'.count > config.threshold
      /\ last'.now - lastAlertTime >= CooldownMs)
     => /\ status' = ALERT
        /\ lastAlertTime' = last'.now
        /\ Len(logs') >= 1
        /\ logs'[1].id = clock'
        /\ logs'[1].id \notin LogIds
        /\ Tail(logs') =
             SubSeq(logs, 1, IF Len(logs) < MAX_LOGS THEN Len(logs) ELSE MAX_LOGS - 1)]_vars

\* The only trigger so far came exactly one cooldown after the initial 0.
C2_Witness ==
  /\ last.op = "detectMotion" /\ last.compared
  /\ Len(logs) = 1
  /\ status = ALERT
  /\ lastAlertTime = last.now
  /\ lastAlertTime = CooldownMs

\* C3: a run that compares two frames and counts no more changed pixels
\* than the threshold sets status to IDLE and leaves the last-alert time and
\* the log as they are, whatever the cooldown timer says.
C3_NoMotionIdle ==
  [][(ComparedStep /\ last'.count <= config.threshold)
     => /\ status' = IDLE
        /\ lastAlertTime' = lastAlertTime
        /\ logs' = logs]_vars

\* Count equal to the threshold, inside the cooldown of an earlier alert.
C3_Witness ==
  /\ last.op = "detectMotion" /\ last.compared
  /\ last.count = config.threshold
  /\ status = IDLE
  /\ Len(logs) >= 1
  /\ last.now - lastAlertTime < CooldownMs

\* C5: status turns to ALERT only in a run that acquired a frame, compared
\* it and counted more changed pixels than the threshold; a run that counted
\* no more than the threshold, a first run and a skipped run never end in a
\* status they set to ALERT, and they compute no hull. A completion never
\* changes status.
C5_AlertOnlyAboveThreshold ==
  [][/\ (status' = ALERT /\ status # ALERT)
        => /\ ComparedStep
           /\ ~Unavailable(last'.capture)
           /\ last'.count > config.threshold
     /\ (ComparedStep /\ last'.count <= config.threshold) => status' # ALERT
     /\ (last'.op = "detectMotion" /\ ~(last'.compared /\ last'.count > config.threshold))
        => last'.hull = <<>>
     /\ last'.op = "completeAnalysis" => status' = status]_vars

C5_Witness ==
  /\ last.op = "detectMotion" /\ last.compared
  /\ last.count = config.threshold + 1
  /\ status = ALERT
  /\ Len(last.hull) >= 3

\* C10: a run that finds the capture source unavailable changes neither
\* status, nor the last-alert time, nor the log, nor the stored previous
\* frame, and the interval stays registered.
C10_SkippedTick ==
  [][(last'.op = "detectMotion" /\ Unavailable(last'.capture))
     => UNCHANGED <<status, lastAlertTime, logs, prevFrameData, pending,
                    hasPermission, closure>>]_vars

C10_Witness ==
  /\ last.op = "detectMotion" /\ Unavailable(last.capture)
  /\ status = ALERT
  /\ prevFrameData # NoFrame
  /\ Len(logs) >= 1

\* C4: the log never holds more than MAX_LOGS entries and is ordered newest
\* first; an insertion into a full log drops exactly the oldest entry and
\* keeps the others in their order behind the new one.
C4_BoundedLog ==
  /\ [](/\ Len(logs) <= MAX_LOGS
        /\ \A i \in 1..(Len(logs) - 1) : logs[i].timestamp >= logs[i + 1].timestamp)
  /\ [][(Len(logs) = MAX_LOGS /\ logs' # logs /\ last'.op = "detectMotion")
        => /\ Len(logs') = MAX_LOGS
           /\ logs'[1].id \notin LogIds
           /\ Tail(logs') = SubSeq(logs, 1, MAX_LOGS - 1)]_vars

\* The log is full and its oldest entry is later than the first trigger.
C4_Witness ==
  /\ last.op = "detectMotion"
  /\ Len(logs) = MAX_LOGS
  /\ logs[MAX_LOGS].id >= 4 * CooldownMs

\* C6: what a run of the callback does follows the configuration as it is
\* when the run starts: motion is present exactly when the count exceeds the
\* configured threshold, and a qualifying trigger plays the sound exactly
\* when audio is enabled and asks for a description exactly when AI is.
C6_ConfigTakesEffect ==
  [][ComparedStep
     => /\ (status' = ALERT) <=> (last'.count > config.threshold)
        /\ logs' # logs
           => /\ last'.audio = config.enableAudio
              /\ last'.request = config.enableAI]_vars

\* Whether an entry with this id is in the log with its in-flight flag set.
Analyzing(id) == \E i \in 1..Len(logs) : logs[i].id = id /\ logs[i].isAnalyzing

\* C7: an entry in the log with isAnalyzing set is, later on, either out of
\* the log or has the flag cleared.
C7_NoEntryPendingForever ==
  \A id \in RequestIds : [](Analyzing(id) => <>~Analyzing(id))

\* The service failed and the entry carries the fallback text.
C7_Witness ==
  /\ last.op = "completeAnalysis"
  /\ \E i \in 1..Len(logs) :
       /\ logs[i].id = last.id
       /\ ~logs[i].isAnalyzing
       /\ logs[i].analysis = "Analysis failed due to network or API error."

\* C8: a completion changes nothing but the analysis and isAnalyzing fields
\* of the one entry that carries the request's id: the other entries, the
\* length of the log and its order stay.
C8_CompletionPatchesOwnEntry ==
  [][last'.op = "completeAnalysis"
     => /\ Len(logs') = Len(logs)
        /\ Cardinality({i \in 1..Len(logs) : logs[i].id = last'.id}) <= 1
        /\ \A i \in 1..Len(logs) :
             /\ logs'[i].id = logs[i].id
             /\ logs'[i].timestamp = logs[i].timestamp
             /\ logs'[i].imageUrl = logs[i].imageUrl
             /\ logs[i].id # last'.id => logs'[i] = logs[i]]_vars

\* The newer of two requests is answered while the older is in flight.
C8_Witness ==
  /\ last.op = "completeAnalysis"
  /\ Len(logs) = 2
  /\ logs[1].id = last.id
  /\ ~logs[1].isAnalyzing /\ logs[1].analysis # Undefined
  /\ logs[2].isAnalyzing /\ logs[2].analysis = Undefined

\* C9: a completion whose entry has left the log changes nothing in the log
\* and nothing else but the set of requests in flight.
C9_EvictedCompletionDiscarded ==
  [][(last'.op = "completeAnalysis" /\ last'.id \notin LogIds)
     => /\ logs' = logs
        /\ pending' = pending \ {last'.id}
        /\ UNCHANGED <<status, lastAlertTime, prevFrameData, hasPermission>>]_vars

C9_Witness ==
  /\ last.op = "completeAnalysis"
  /\ last.id \notin LogIds
  /\ Len(logs) = MAX_LOGS

\* The step is a run of the interval callback that drew a frame.
AcquiredStep == last'.op = "detectMotion" /\ ~Unavailable(last'.capture)

\* C11: a run that draws a frame stores it as the previous frame, with or
\* without a comparison and whatever the comparison finds. The first such
\* run compares nothing and leaves status, the last-alert time and the log
\* as they are. Every later one compares its frame with the stored one, and
\* the stored one is the frame of the latest run that was not skipped: no
\* other step changes it.
C11_FrameAlwaysStored ==
  [][/\ AcquiredStep
        => /\ last'.frame \in FrameIds
           /\ prevFrameData' = last'.frame
           /\ prevFrameData = NoFrame
              => /\ ~last'.compared
                 /\ UNCHANGED <<status, lastAlertTime, logs>>
           /\ prevFrameData # NoFrame
              => /\ last'.compared
                 /\ last'.count =
                      Len(Compared(prevFrameData, last'.frame, config.sensitivity))
     /\ ~AcquiredStep => prevFrameData' = prevFrameData]_vars

\* The second alert of a session: the run drew the glowing scene, compared
\* it with the dark one stored before and stored it in turn.
C11_Witness ==
  /\ last.op = "detectMotion" /\ last.compared
  /\ last.frame = Glow /\ prevFrameData = Glow
  /\ last.count = GlowPixels
  /\ status = ALERT
  /\ Len(logs) = 2

\* C12: the first run of a session that finds motion (no alert has fired,
\* the last-alert time is still its initial 0) is a qualifying trigger
\* whatever the clock reads: it sets the last-alert time and adds a log entry.
C12_FirstMotionQualifies ==
  [][(/\ ComparedStep
      /\ last'.count > config.threshold
      /\ lastAlertTime = 0 /\ logs = <<>>)
     => /\ lastAlertTime' = last'.now
        /\ Len(logs') = 1]_vars

\* C13: requests in flight never hold the loop up. While any are in flight
\* the next run of the callback can happen, and a run that happens then
\* waits for none of them: it leaves them in flight, compares its frame
\* with the stored one, sets status by the count, and adds a log entry when
\* it finds motion and the cooldown has passed.
C13_PendingNeverBlocksLoop ==
  /\ []((/\ pending # {}
         /\ hasPermission = "true"
         /\ \E gap \in TickGaps : clock + gap + MaxSnapshotMs <= MaxClock)
        => ENABLED Tick)
  /\ [][(last'.op = "detectMotion" /\ pending # {})
        => /\ pending \subseteq pending'
           /\ LogIds \subseteq {logs'[i].id : i \in 1..Len(logs')}
           /\ ~Unavailable(last'.capture)
              => /\ last'.compared
                 /\ (status' = ALERT) <=> (last'.count > config.threshold)
                 /\ (/\ last'.count > config.threshold
                     /\ last'.now - lastAlertTime >= CooldownMs)
                    => /\ Len(logs') = Len(logs) + 1
                       /\ logs'[1].id \notin LogIds
                       /\ lastAlertTime' = last'.now]_vars

\* A run made a new entry and a new request while the request of the entry
\* before was still in flight.
C13_Witness ==
  /\ last.op = "detectMotion" /\ last.compared /\ last.request
  /\ Len(logs) = 2
  /\ Cardinality(pending) = 2
  /\ logs[1].isAnalyzing /\ logs[2].isAnalyzing

\* ------------------------------------------------------------------------
\* Properties of getConvexHull
\* ------------------------------------------------------------------------
Range(s) == {s[i] : i \in 1..Len(s)}

\* p lies on the segment from a to b and is neither of them.
OnSegment(p, a, b) ==
  /\ p # a /\ p # b
  /\ cross(a, b, p) = 0
  /\ (a.x - p.x) * (b.x - p.x) <= 0
  /\ (a.y - p.y) * (b.y - p.y) <= 0

\* p lies in the triangle a b c, border included.
InTriangle(p, a, b, c) ==
  /\ cross(a, b, c) # 0
  /\ \/ cross(a, b, p) >= 0 /\ cross(b, c, p) >= 0 /\ cross(c, a, p) >= 0
     \/ cross(a, b, p) <= 0 /\ cross(b, c, p) <= 0 /\ cross(c, a, p) <= 0

\* The corners of the convex hull of the set S, from the definition: the
\* points of S that are not in the convex hull of the others.
HullVertices(S) ==
  {p \in S :
     LET others == S \ {p}
     IN /\ ~\E a, b \in others : OnSegment(p, a, b)
        /\ ~\E a, b, c \in others : InTriangle(p, a, b, c)}

\* Every three consecutive points of h, taken round, turn strictly left.
CounterClockwise(h) ==
  \A i \in 1..Len(h) :
    cross(h[i], h[(i % Len(h)) + 1], h[((i + 1) % Len(h)) + 1]) > 0

\* h lists exactly the corners of the hull of the points, each once, counter-
\* clockwise, and none of its points lies inside the hull or on a side.
IsHullOf(h, points) ==
  /\ Range(h) \subseteq Range(points)
  /\ Range(h) = HullVertices(Range(points))
  /\ Len(h) = Cardinality(Range(h))
  /\ Len(h) >= 3 => CounterClockwise(h)
  /\ \A p \in Range(h) :
       /\ ~\E a, b \in Range(h) : OnSegment(p, a, b)
       /\ ~\E a, b, c \in Range(h) \ {p} : InTriangle(p, a, b, c)

HullCall == last.op = "getConvexHull"

\* C14 as stated: for every array of 3 or more points, duplicates or not,
\* getConvexHull returns the corners of the hull, each exactly once,
\* counter-clockwise, with no inner point and no point on a side.
C14_HullOfAnyPoints ==
  (HullCall /\ Len(last.input) >= 3) => IsHullOf(last.hull, last.input)

\* C14 amended: the same for every array of 3 or more points that are not
\* all the same point; for 3 or more copies of one point the result is that
\* point twice.
C14_HullOfDistinctPoints ==
  (HullCall /\ Len(last.input) >= 3)
  => IF Cardinality(Range(last.input)) >= 2
     THEN IsHullOf(last.hull, last.input)
     ELSE last.hull = <<last.input[1], last.input[1]>>

\* The corners of the square, its centre and a repeated corner, out of
\* order, give the four corners from the lowest on, counter-clockwise.
C14_Witness ==
  /\ HullCall /\ last.call = 1
  /\ last.input = <<[x |-> 1, y |-> 1], [x |-> 2, y |-> 2], [x |-> 0, y |-> 2],
                    [x |-> 2, y |-> 0], [x |-> 0, y |-> 0]>>
  /\ last.hull = <<[x |-> 0, y |-> 0], [x |-> 2, y |-> 0], [x |-> 2, y |-> 2],
                   [x |-> 0, y |-> 2]>>

\* All the points lie on one line.
Collinear(points) ==
  \A a, b, c \in Range(points) : cross(a, b, c) = 0

\* The end of the set S that comes first (low) or last in the order of x,
\* then y.
Endpoint(S, low) ==
  CHOOSE p \in S :
    \A q \in S : IF low THEN ComparePoints(p, q) <= 0 ELSE ComparePoints(p, q) >= 0

\* C15: for 3 or more points on one line getConvexHull returns the two ends
\* of the set, the lower one first, and nothing else.
C15_CollinearEndpoints ==
  (HullCall /\ Len(last.input) >= 3 /\ Collinear(last.input))
  => last.hull = <<Endpoint(Range(last.input), TRUE),
                   Endpoint(Range(last.input), FALSE)>>

\* A diagonal of the square given middle first, with one end twice.
C15_Witness ==
  /\ HullCall /\ last.call = 1
  /\ last.input = <<[x |-> 1, y |-> 1], [x |-> 2, y |-> 0], [x |-> 0, y |-> 2],
                    [x |-> 2, y |-> 0]>>
  /\ last.hull = <<[x |-> 0, y |-> 2], [x |-> 2, y |-> 0]>>

\* C16: the hull of a hull has the same set of points as the hull.
C16_HullIdempotent ==
  (HullCall /\ last.call = 2) => Range(last.hull) = Range(last.input)

\* The second call was handed the four corners the first call returned.
C16_Witness ==
  /\ HullCall /\ last.call = 2
  /\ Len(last.input) = 4
  /\ Len(last.hull) = 4

\* C19: getConvexHull leaves the array it is handed as it was: the same
\* points in the same order, whatever the size of the array.
C19_InputUnchanged ==
  HullCall => last.points = last.input

\* ------------------------------------------------------------------------
\* Properties of the frame comparison
\* ------------------------------------------------------------------------
\* |dR| + |dG| + |dB| of the pixel in column x and row y.
ColourDelta(prev, data, x, y) ==
  LET i == 4 * (y * FrameWidth + x)
      d(c) == Abs(FrameByte(data, i + c) - FrameByte(prev, i + c))
  IN d(0) + d(1) + d(2)

\* C17: the comparison lists a pixel exactly when |dR| + |dG| + |dB| is
\* strictly greater than the sensitivity, whatever the alpha channels say;
\* it lists each such pixel once, as column and row, inside the frame.
C17_ChangedPixelSet ==
  last.op = "compare"
  => /\ Range(last.pixels) =
          {[x |-> p[1], y |-> p[2]] :
             p \in {q \in (0..(FrameWidth - 1)) \X (0..(FrameHeight - 1)) :
                      ColourDelta(last.prev, last.data, q[1], q[2]) > last.sensitivity}}
     /\ Len(last.pixels) = Cardinality(Range(last.pixels))
     /\ \A i \in 1..Len(last.pixels) :
          /\ last.pixels[i].x \in 0..(FrameWidth - 1)
          /\ last.pixels[i].y \in 0..(FrameHeight - 1)

\* Glow against Veil at the default sensitivity: the lit pixels (sum 21)
\* count, the halo (sum 20, equal to the sensitivity) does not, the last
\* pixel (blue 21) counts, and the transparent first row adds nothing more.
C17_Witness ==
  /\ last.op = "compare"
  /\ last.prev = Veil /\ last.data = Glow
  /\ last.sensitivity = DefaultSensitivity
  /\ Len(last.pixels) = GlowPixels + 1
  /\ last.pixels[Len(last.pixels)] = [x |-> FrameWidth - 1, y |-> FrameHeight - 1]

\* ------------------------------------------------------------------------
\* Alert flooding
\* ------------------------------------------------------------------------
\* C20: the cooldown never changes, and the triggers that made the entries
\* of the log are at least one cooldown apart: the last-alert time is the
\* trigger time of the newest entry, a step adds at most one entry, and
\* only when its clock reading is at least one cooldown after the last-alert
\* time; a sound or a description request comes only with a new entry, and
\* at most one request with it. Runs that find motion in between add nothing.
C20_OneEntryPerCooldown ==
  /\ [](Len(logs) >= 1
        => /\ lastAlertTime >= CooldownMs
           /\ lastAlertTime <= logs[1].timestamp)
  /\ [][/\ config'.cooldown = config.cooldown
        /\ logs' = logs \/ Len(logs') = Len(logs) \/ Tail(logs') = logs
           \/ (Len(logs) = MAX_LOGS /\ Tail(logs') = SubSeq(logs, 1, MAX_LOGS - 1))
        /\ (last'.op = "detectMotion" /\ logs' # logs)
           => /\ last'.now - lastAlertTime >= CooldownMs
              /\ lastAlertTime' = last'.now
              /\ logs'[1].timestamp >= last'.now
              /\ Cardinality(pending' \ pending) <= 1
        /\ (last'.op = "detectMotion" /\ logs' = logs)
           => /\ lastAlertTime' = lastAlertTime
              /\ ~last'.audio /\ ~last'.request /\ pending' = pending
        /\ last'.op # "detectMotion"
           => lastAlertTime' = lastAlertTime /\ LogIds' = LogIds]_vars

\* The second trigger of a session, at least one cooldown after the first,
\* came with the sound.
C20_Witness ==
  /\ last.op = "detectMotion" /\ last.audio
  /\ Len(logs) = 2
  /\ lastAlertTime = last.now
  /\ lastAlertTime >= 2 * CooldownMs
  /\ logs[1].timestamp - logs[2].timestamp >= CooldownMs

\* ------------------------------------------------------------------------
\* Identifiers
\* ------------------------------------------------------------------------
\* C21: no two entries of the log carry the same id. The id of a new entry
\* is the clock reading at its creation and is later than every id in the
\* log, whatever the cooldown test let through; so a completion changes at
\* most one entry.
C21_DistinctIds ==
  /\ [](\A i, j \in 1..Len(logs) : logs[i].id = logs[j].id => i = j)
  /\ [][/\ (last'.op = "detectMotion" /\ logs' # logs)
           => /\ logs'[1].id = clock'
              /\ \A id \in LogIds \cup pending : logs'[1].id > id
        /\ last'.op = "completeAnalysis"
           => Cardinality({i \in 1..Len(logs) : logs'[i] # logs[i]}) <= 1]_vars

\* A full log that has dropped entries, all ids different, and a completion
\* has just patched one entry of it.
C21_Witness ==
  /\ last.op = "completeAnalysis"
  /\ Len(logs) = MAX_LOGS
  /\ Cardinality(LogIds) = MAX_LOGS
  /\ logs[MAX_LOGS].id > CooldownMs
  /\ \E i \in 1..Len(logs) : logs[i].id = last.id /\ ~logs[i].isAnalyzing

\* Every id in use is one the fairness condition and C7 range over.
IdsCovered == pending \subseteq RequestIds /\ LogIds \subseteq RequestIds
====
